---- MODULE Spec2Model ----
(***************************************************************************)
(* The movie persistence layer of an-open-movie-database: MovieModel       *)
(* (Insert, Get, Update, Delete) over the movies table, called from        *)
(* concurrent request handlers.  Every SQL statement is one atomic step of *)
(* the database; a call is in flight between the moment it hands its       *)
(* statement to the connection pool and the moment it returns.             *)
(***************************************************************************)
EXTENDS Integers, Sequences, FiniteSets, TLC

\* ------------------------------------------------------------------ bounds
MaxId == 2          \* the bigserial sequence is stopped after this ID
MaxVersion == 2     \* largest Version a caller passes to Update
MaxTime == 1        \* distinct values of the database clock, now()
NumClients == 2     \* concurrent callers of the Store
MaxRows == 3        \* rows of the catalog GetAll pages through

\* --------------------------------------------------------------- constants
FirstId == 1         \* bigserial starts autoincrementing at 1
InitialVersion == 1  \* "The version number starts at 1"
Timeout == 3         \* 3*time.Second, in seconds

Clients == 1..NumClients
Ids == FirstId..MaxId
IdInputs == (FirstId - 2)..MaxId
VersionInputs == 1..MaxVersion
Timestamps == 1..MaxTime

ErrRecordNotFound == "ErrRecordNotFound"
ErrEditConflict == "ErrEditConflict"
ErrNoRows == "sql.ErrNoRows"
DeadlineExceeded == "context.DeadlineExceeded"
nil == "nil"

\* The client-supplied fields of a Movie (title, year, runtime, genres).
MovieInputs ==
  { [Title |-> "alien", Year |-> 1979, Runtime |-> 117, Genres |-> <<"horror">>],
    [Title |-> "brazil", Year |-> 1985, Runtime |-> 132, Genres |-> <<"comedy", "scifi">>] }

\* type Movie struct: the zero value, "var movie Movie".
ZeroMovie ==
  [ID |-> 0, CreatedAt |-> 0, Title |-> "", Year |-> 0, Runtime |-> 0,
   Genres |-> <<>>, Version |-> 0]

\* A Movie as a caller builds it from client input before Insert.
NewMovie(in) ==
  [ZeroMovie EXCEPT !.Title = in.Title, !.Year = in.Year,
                    !.Runtime = in.Runtime, !.Genres = in.Genres]

\* A Movie as a caller passes it to Update: ID and Version of the copy it
\* holds, with the fields it wants written.
EditedMovie(id, version, in) ==
  [NewMovie(in) EXCEPT !.ID = id, !.Version = version]

\* An absent row of the movies table.
NoRow ==
  [id |-> 0, created_at |-> 0, title |-> "", year |-> 0, runtime |-> 0,
   genres |-> <<>>, version |-> 0]

VARIABLES
  movies,     \* the movies table: ID -> row, NoRow where there is none
  nextId,     \* next value of the id bigserial sequence
  dbUp,       \* whether the database answers statements
  call,       \* per client: the Store call in flight, its statement sent
  remaining,  \* per client: seconds left on the in-flight call's context
  ret,        \* per client: what its latest Store call returned
  updates,    \* per ID: successful Update statements applied to the row
  cancelled,  \* per client: the context of the request it serves is cancelled
  walk,       \* per client: the pages a caller paging through GetAll collected
  openRows,   \* per client: result sets obtained by GetAll and not yet closed
  input,      \* per client: the movie and the Filters its request carries
  Errors,     \* per client: the Errors map of the Validator of its request
  applied,    \* per client: the functions applied to its input, and the results
  handler     \* per client: the HTTP handler serving its request, and its locals

\* The state of the requests the callers of the Store serve.
request == <<cancelled, walk, openRows, input, Errors, applied, handler>>

vars == <<movies, nextId, dbUp, call, remaining, ret, updates, request>>

\* type Metadata struct: the zero value, Metadata{}.
ZeroMetadata ==
  [CurrentPage |-> 0, PageSize |-> 0, FirstPage |-> 0, LastPage |-> 0,
   TotalRecords |-> 0]

\* No query: the arguments of GetAll when the call is another operation.
NoQuery ==
  [title |-> "", genres |-> <<>>,
   filters |-> [Page |-> 0, PageSize |-> 0, Sort |-> <<>>, SortSafelist |-> <<>>]]

NoCall == [op |-> "none", id |-> 0, movie |-> ZeroMovie, query |-> NoQuery]
NoRet ==
  [op |-> "none", id |-> 0, arg |-> ZeroMovie, query |-> NoQuery, err |-> nil,
   movie |-> ZeroMovie, list |-> <<>>, metadata |-> ZeroMetadata,
   found |-> "", version |-> 0, racing |-> FALSE, nilList |-> TRUE]

Idle(c) == call[c] = NoCall

\* SELECT ... WHERE id = $1: the row with that ID, NoRow when none matches.
RowOf(tbl, id) == IF id \in DOMAIN tbl THEN tbl[id] ELSE NoRow

\* Mutant: context.Background() passed on, a context that is never done.
WithoutDeadline == 0 - 1

\* context.WithTimeout(context.Background(), 3*time.Second): each call gets
\* a context of its own whose deadline is counted from the call's start.
WithTimeout == Timeout

\* Mutant: the test written as id < 0.
BelowZero(id) == id < 0

\* if id < 1 { return ErrRecordNotFound }
BelowFirstId(id) == id < 1

\* Mutant: the row's genres read back as the empty array.
ScanMovieNoGenres(row) ==
  [ID |-> row.id, CreatedAt |-> row.created_at, Title |-> row.title,
   Year |-> row.year, Runtime |-> row.runtime, Genres |-> <<>>,
   Version |-> row.version]

\* rows.Scan into the fields of a Movie struct.
ScanMovie(row) ==
  [ID |-> row.id, CreatedAt |-> row.created_at, Title |-> row.title,
   Year |-> row.year, Runtime |-> row.runtime, Genres |-> row.genres,
   Version |-> row.version]

\* INSERT INTO movies (title, year, runtime, genres) VALUES ($1, $2, $3, $4):
\* id, created_at and version come from the column defaults.
InsertRow(seq, m, now) ==
  [id |-> seq, created_at |-> now, title |-> m.Title, year |-> m.Year,
   runtime |-> m.Runtime, genres |-> m.Genres, version |-> InitialVersion]

\* Mutant: WHERE id = $5 AND version >= $6
UpdateWhereAtLeast(row, m) == row.id = m.ID /\ row.version >= m.Version

\* Mutant: WHERE id = $5
UpdateWhereIdOnly(row, m) == row.id = m.ID

\* Mutant: WHERE version = $6
UpdateWhereVersionOnly(row, m) == row.version = m.Version

\* UPDATE ... WHERE id = $5 AND version = $6
UpdateWhere(row, m) == row.id = m.ID /\ row.version = m.Version

\* Mutant: SET ..., version = version + 2
UpdateSetSkip(row, m) ==
  [row EXCEPT !.title = m.Title, !.year = m.Year, !.runtime = m.Runtime,
              !.genres = m.Genres, !.version = row.version + 2]

\* UPDATE ... SET title = $1, year = $2, runtime = $3, genres = $4,
\*                version = version + 1
UpdateSet(row, m) ==
  [row EXCEPT !.title = m.Title, !.year = m.Year, !.runtime = m.Runtime,
              !.genres = m.Genres, !.version = row.version + 1]

\* Mutant: DELETE ... WHERE id = $1 AND version = 1
DeleteWhereUnedited(row, id) == row.id = id /\ row.version = InitialVersion

\* SELECT ... WHERE id = $1
GetWhere(row, id) == row.id = id

\* DELETE FROM movies WHERE id = $1
DeleteWhere(row, id) == row.id = id

\* Mutant: Update maps sql.ErrNoRows as Get does.
UpdateErrNotFound(err) == IF err = ErrNoRows THEN ErrRecordNotFound ELSE err

\* Update's switch on the error of Scan.
UpdateErr(err) == IF err = ErrNoRows THEN ErrEditConflict ELSE err

\* Mutant: Get returns the error of Scan as it is.
GetErrAsIs(err) == err

\* Get's switch on the error of Scan.
GetErr(err) == IF err = ErrNoRows THEN ErrRecordNotFound ELSE err

\* Delete's test of result.RowsAffected().
DeleteErr(rowsAffected) == IF rowsAffected = 0 THEN ErrRecordNotFound ELSE nil

\* ------------------------------------------------------------------ filters
\* A Sort value is the sequence of its pieces, a leading hyphen being a piece
\* of its own: "-year" is <<"-", "year">>.
HasPrefix(s, prefix) ==
  Len(s) >= Len(prefix) /\ SubSeq(s, 1, Len(prefix)) = prefix

TrimPrefix(s, prefix) ==
  IF HasPrefix(s, prefix) THEN SubSeq(s, Len(prefix) + 1, Len(s)) ELSE s

\* panic("unsafe sort parameter: " + f.Sort)
Panic == <<"panic: unsafe sort parameter">>

\* Mutant: the loop returning at its first entry, whatever f.Sort is.
InSafelistAny(f) == Len(f.SortSafelist) >= 1

\* The loop of sortColumn over f.SortSafelist.
InSafelist(f) == \E i \in 1..Len(f.SortSafelist) : f.Sort = f.SortSafelist[i]

sortColumn(f) == IF InSafelist(f) THEN TrimPrefix(f.Sort, <<"-">>) ELSE Panic

sortDirection(f) == IF HasPrefix(f.Sort, <<"-">>) THEN "DESC" ELSE "ASC"

\* Mutant: the page number returned as the limit.
limitFromPage(f) == f.Page

limit(f) == f.PageSize

\* Mutant: the offset counted from page 0, f.Page * f.PageSize.
offsetFromPage(f) == f.Page * f.PageSize

offset(f) == (f.Page - 1) * f.PageSize

\* Mutant: the quotient converted without math.Ceil, int(a / b).
TruncDiv(a, b) == a \div b

\* int(math.Ceil(float64(totalRecords) / float64(pageSize))), for the
\* positive page sizes the model draws (the quotient is exact in float64).
CeilDiv(a, b) == (a + b - 1) \div b

calculateMetadata(totalRecords, page, pageSize) ==
  IF totalRecords = 0
    THEN ZeroMetadata
    ELSE [CurrentPage |-> page, PageSize |-> pageSize, FirstPage |-> 1,
          LastPage |-> CeilDiv(totalRecords, pageSize),
          TotalRecords |-> totalRecords]

\* ------------------------------------------------------- the GetAll statement
\* The titles of the model in the order the database collates them.
Collation == <<"", "alien", "brazil">>

TitleRank(t) == CHOOSE i \in 1..Len(Collation) : Collation[i] = t

\* to_tsvector('simple', title), plainto_tsquery('simple', $1): the lexemes
\* of a text; the titles and queries of the model are single lower-case
\* words, and the empty text has no lexeme.
Lexemes(text) == IF text = "" THEN {} ELSE {text}

\* vector @@ query: the query has a lexeme and the vector holds all of them.
TsMatch(text, q) == Lexemes(q) # {} /\ Lexemes(q) \subseteq Lexemes(text)

Elems(seq) == {seq[i] : i \in 1..Len(seq)}

\* Mutant: genres && $2, the arrays overlapping, in place of genres @> $2.
GetAllWhereAnyGenre(row, title, genres) ==
  /\ TsMatch(row.title, title) \/ title = ""
  /\ Elems(genres) \cap Elems(row.genres) # {} \/ genres = <<>>

\* WHERE (to_tsvector('simple', title) @@ plainto_tsquery('simple', $1)
\*        OR $1 = '') AND (genres @> $2 OR $2 = '{}')
GetAllWhere(row, title, genres) ==
  /\ TsMatch(row.title, title) \/ title = ""
  /\ Elems(genres) \subseteq Elems(row.genres) \/ genres = <<>>

\* The value of the ORDER BY column in a row, as a number that orders as the
\* column does.
ColumnValue(row, column) ==
  CASE column = <<"id">> -> row.id
    [] column = <<"title">> -> TitleRank(row.title)
    [] column = <<"year">> -> row.year
    [] column = <<"runtime">> -> row.runtime

\* Mutant: ORDER BY %s %s, id %s, the direction applied to the ID as well.
OrderBeforeIdFollows(a, b, column, direction) ==
  LET ka == ColumnValue(a, column)
      kb == ColumnValue(b, column)
  IN IF ka # kb
       THEN IF direction = "DESC" THEN ka > kb ELSE ka < kb
       ELSE IF direction = "DESC" THEN a.id > b.id ELSE a.id < b.id

\* ORDER BY %s %s, id ASC: whether row a comes before row b.
OrderBefore(a, b, column, direction) ==
  LET ka == ColumnValue(a, column)
      kb == ColumnValue(b, column)
  IN IF ka # kb
       THEN IF direction = "DESC" THEN ka > kb ELSE ka < kb
       ELSE a.id < b.id

RECURSIVE OrderBy(_, _, _)
OrderBy(rows, column, direction) ==
  IF rows = {} THEN <<>>
  ELSE LET first == CHOOSE a \in rows :
                      \A b \in rows \ {a} : OrderBefore(a, b, column, direction)
       IN <<first>> \o OrderBy(rows \ {first}, column, direction)

\* LIMIT $3 OFFSET $4
LimitOffset(seq, lim, off) ==
  SubSeq(seq, off + 1, IF off + lim < Len(seq) THEN off + lim ELSE Len(seq))

\* The result set of GetAll's SELECT: count(*) OVER() beside each row of the
\* page, the count being that of all rows the WHERE clause keeps.
GetAllRows(tbl, q) ==
  LET kept == {tbl[i] : i \in {j \in DOMAIN tbl :
                 tbl[j] # NoRow /\ GetAllWhere(tbl[j], q.title, q.genres)}}
      ordered == OrderBy(kept, sortColumn(q.filters), sortDirection(q.filters))
      page == LimitOffset(ordered, limit(q.filters), offset(q.filters))
  IN [i \in 1..Len(page) |-> [count |-> Cardinality(kept), row |-> page[i]]]

\* Mutant: the rows of the page counted in place of the count scanned.
GetAllScanCountsPage(rows) ==
  [totalRecords |-> Len(rows),
   movies |-> [i \in 1..Len(rows) |-> ScanMovie(rows[i].row)]]

\* The rows.Next() loop of GetAll: each row scanned into totalRecords and a
\* Movie appended to the slice.
GetAllScan(rows) ==
  [totalRecords |-> IF rows = <<>> THEN 0 ELSE rows[Len(rows)].count,
   movies |-> [i \in 1..Len(rows) |-> ScanMovie(rows[i].row)]]

\* The deferred cancel() of a call releases its context.
Return(c, r) ==
  /\ ret' = [ret EXCEPT ![c] = r]
  /\ call' = [call EXCEPT ![c] = NoCall]
  /\ remaining' = [remaining EXCEPT ![c] = 0]

\* A call hands its statement to the pool under a fresh context and waits.
Issue(c, k) ==
  /\ call' = [call EXCEPT ![c] = k]
  /\ remaining' = [remaining EXCEPT ![c] = WithTimeout]
  /\ ret' = [ret EXCEPT ![c] = NoRet]

\* validator.New(): a Validator whose Errors map is empty.
NoErrors == [key \in {} |-> ""]

\* A request that carries no movie and no Filters, and has counted no record.
NoInput ==
  [movie |-> ZeroMovie, filters |-> NoQuery.filters, totalRecords |-> 0]

\* Nothing has been applied to the input of a request.
NoneApplied ==
  [called |-> {}, panicked |-> {}, column |-> <<>>, direction |-> "",
   limit |-> 0, offset |-> 0, metadata |-> ZeroMetadata]

\* The input struct of a handler before readJSON has filled it.
NoBody == [Title |-> "", Year |-> 0, Runtime |-> 0, Genres |-> <<>>]

\* No handler is running: a client that serves no request.
NoHandler ==
  [name |-> "none", pc |-> "idle", id |-> 0, body |-> NoBody,
   malformed |-> FALSE, movie |-> ZeroMovie, read |-> ZeroMovie,
   response |-> "none"]

\* No request is being served: nothing cancelled, collected, open or checked.
InitRequest ==
  /\ cancelled = [c \in Clients |-> FALSE]
  /\ walk = [c \in Clients |-> <<>>]
  /\ openRows = [c \in Clients |-> 0]
  /\ input = [c \in Clients |-> NoInput]
  /\ Errors = [c \in Clients |-> NoErrors]
  /\ applied = [c \in Clients |-> NoneApplied]
  /\ handler = [c \in Clients |-> NoHandler]

Init ==
  /\ movies = [i \in Ids |-> NoRow]
  /\ nextId = FirstId
  /\ dbUp = TRUE
  /\ call = [c \in Clients |-> NoCall]
  /\ remaining = [c \in Clients |-> 0]
  /\ ret = [c \in Clients |-> NoRet]
  /\ updates = [i \in Ids |-> 0]
  /\ InitRequest

\* The IDs that have a row.
Live(tbl) == {i \in DOMAIN tbl : tbl[i] # NoRow}

\* The first of the rows a statement returns.
First(hits) == CHOOSE i \in hits : \A j \in hits : i <= j

\* What a statement finds under an ID: a row, the place of a deleted row, or
\* an ID the sequence has not reached.
Found(id) ==
  IF RowOf(movies, id) # NoRow THEN "row"
  ELSE IF id >= FirstId /\ id < nextId THEN "deleted" ELSE "never"

\* The database answers the statement of c before the deadline of its context.
Answered(c) == dbUp /\ remaining[c] # 0

\* Inserts in flight, each of which will draw one value of the sequence.
InsertsInFlight == Cardinality({c \in Clients : call[c].op = "Insert"})

\* ---------------------------------------------------------- calls starting
InsertCall(c, in) ==
  /\ Idle(c)
  /\ nextId + InsertsInFlight <= MaxId
  /\ Issue(c, [NoCall EXCEPT !.op = "Insert", !.movie = NewMovie(in)])
  /\ UNCHANGED <<movies, nextId, dbUp, updates, request>>

GetCall(c, id) ==
  /\ Idle(c)
  /\ IF BelowFirstId(id)
       THEN /\ ret' = [ret EXCEPT ![c] =
                         [NoRet EXCEPT !.op = "Get", !.id = id,
                                       !.err = ErrRecordNotFound]]
            /\ UNCHANGED <<call, remaining>>
       ELSE Issue(c, [NoCall EXCEPT !.op = "Get", !.id = id])
  /\ UNCHANGED <<movies, nextId, dbUp, updates, request>>

UpdateCall(c, id, version, in) ==
  /\ Idle(c)
  /\ Issue(c, [NoCall EXCEPT !.op = "Update", !.id = id,
                              !.movie = EditedMovie(id, version, in)])
  /\ UNCHANGED <<movies, nextId, dbUp, updates, request>>

DeleteCall(c, id) ==
  /\ Idle(c)
  /\ IF BelowFirstId(id)
       THEN /\ ret' = [ret EXCEPT ![c] =
                         [NoRet EXCEPT !.op = "Delete", !.id = id,
                                       !.err = ErrRecordNotFound]]
            /\ UNCHANGED <<call, remaining>>
       ELSE Issue(c, [NoCall EXCEPT !.op = "Delete", !.id = id])
  /\ UNCHANGED <<movies, nextId, dbUp, updates, request>>

\* ------------------------------------- the database answers, the call returns
\* RETURNING id, created_at, version scanned into the caller's Movie.
InsertScan(m, row) ==
  [m EXCEPT !.ID = row.id, !.CreatedAt = row.created_at,
            !.Version = row.version]

InsertReturn(c) ==
  /\ call[c].op = "Insert"
  /\ Answered(c)
  /\ \E now \in Timestamps :
       LET row == InsertRow(nextId, call[c].movie, now)
       IN /\ movies' = [movies EXCEPT ![nextId] = row]
          /\ Return(c, [NoRet EXCEPT !.op = "Insert", !.id = row.id,
                          !.arg = call[c].movie,
                          !.movie = InsertScan(call[c].movie, row)])
  /\ nextId' = nextId + 1
  /\ UNCHANGED <<dbUp, updates, request>>

GetReturn(c) ==
  /\ call[c].op = "Get"
  /\ Answered(c)
  /\ LET id == call[c].id
         hits == {i \in Live(movies) : GetWhere(movies[i], id)}
         err == IF hits = {} THEN ErrNoRows ELSE nil
         row == IF hits = {} THEN NoRow ELSE movies[First(hits)]
     IN Return(c, [NoRet EXCEPT !.op = "Get", !.id = id,
                     !.err = GetErr(err), !.found = Found(id),
                     !.version = RowOf(movies, id).version,
                     !.movie = IF err = nil THEN ScanMovie(row) ELSE ZeroMovie])
  /\ UNCHANGED <<movies, nextId, dbUp, updates, request>>

\* Other clients whose in-flight Update carries the same ID and Version.
Racing(c) ==
  \E d \in Clients \ {c} :
    /\ call[d].op = "Update"
    /\ call[d].movie.ID = call[c].movie.ID
    /\ call[d].movie.Version = call[c].movie.Version

\* Mutant: the returned version scanned into a local, the Movie left as it was.
UpdateScanNowhere(m, row) == m

\* RETURNING version scanned into the caller's Movie.
UpdateScan(m, row) == [m EXCEPT !.Version = row.version]

UpdateReturn(c) ==
  /\ call[c].op = "Update"
  /\ Answered(c)
  /\ LET m == call[c].movie
         hits == {i \in Live(movies) : UpdateWhere(movies[i], m)}
         new == [i \in DOMAIN movies |->
                   IF i \in hits THEN UpdateSet(movies[i], m) ELSE movies[i]]
         err == IF hits = {} THEN ErrNoRows ELSE nil
     IN /\ movies' = new
        /\ updates' = [i \in DOMAIN updates |->
                         IF i \in hits THEN updates[i] + 1 ELSE updates[i]]
        /\ Return(c, [NoRet EXCEPT !.op = "Update", !.id = m.ID, !.arg = m,
                        !.err = UpdateErr(err), !.found = Found(m.ID),
                        !.version = RowOf(movies, m.ID).version,
                        !.racing = Racing(c),
                        !.movie = IF err = nil THEN UpdateScan(m, new[First(hits)])
                                               ELSE m])
  /\ UNCHANGED <<nextId, dbUp, request>>

DeleteReturn(c) ==
  /\ call[c].op = "Delete"
  /\ Answered(c)
  /\ LET id == call[c].id
         hits == {i \in Live(movies) : DeleteWhere(movies[i], id)}
         rowsAffected == Cardinality(hits)
     IN /\ movies' = [i \in DOMAIN movies |->
                        IF i \in hits THEN NoRow ELSE movies[i]]
        /\ updates' = [i \in DOMAIN updates |->
                         IF i \in hits THEN 0 ELSE updates[i]]
        /\ Return(c, [NoRet EXCEPT !.op = "Delete", !.id = id,
                        !.found = Found(id),
                        !.version = RowOf(movies, id).version,
                        !.err = DeleteErr(rowsAffected)])
  /\ UNCHANGED <<nextId, dbUp, request>>

\* ------------------------------------------------------------------ GetAll
\* The arguments of the GetAll calls: title, genres and Filters.
Safelist ==
  << <<"id">>, <<"title">>, <<"year">>, <<"runtime">>,
     <<"-", "id">>, <<"-", "title">>, <<"-", "year">>, <<"-", "runtime">> >>

Query(title, genres, page, pageSize, sort) ==
  [title |-> title, genres |-> genres,
   filters |-> [Page |-> page, PageSize |-> pageSize, Sort |-> sort,
                SortSafelist |-> Safelist]]

QueryInputs ==
  { Query("", <<>>, 1, 1, <<"id">>),
    Query("", <<"scifi">>, 1, 1, <<"-", "year">>),
    Query("", <<>>, 1, 1, <<"rating">>) }

GetAllCall(c, q) ==
  /\ Idle(c)
  /\ IF sortColumn(q.filters) = Panic
       THEN /\ ret' = [ret EXCEPT ![c] =
                         [NoRet EXCEPT !.op = "GetAll", !.query = q,
                                       !.err = "panic"]]
            /\ UNCHANGED <<call, remaining>>
       ELSE Issue(c, [NoCall EXCEPT !.op = "GetAll", !.query = q])
  /\ UNCHANGED <<movies, nextId, dbUp, updates, request>>

GetAllReturn(c) ==
  /\ call[c].op = "GetAll"
  /\ Answered(c)
  /\ LET q == call[c].query
         scanned == GetAllScan(GetAllRows(movies, q))
     IN Return(c, [NoRet EXCEPT !.op = "GetAll", !.query = q,
                     !.nilList = FALSE,
                     !.list = scanned.movies,
                     !.metadata = calculateMetadata(scanned.totalRecords,
                                    q.filters.Page, q.filters.PageSize)])
  /\ UNCHANGED <<movies, nextId, dbUp, updates, request>>

\* ------------------------------------------------- deadlines and outages
\* The database stops answering, and answers again.
Outage ==
  /\ dbUp
  /\ dbUp' = FALSE
  /\ UNCHANGED <<movies, nextId, call, remaining, ret, updates, request>>

Recover ==
  /\ ~dbUp
  /\ dbUp' = TRUE
  /\ UNCHANGED <<movies, nextId, call, remaining, ret, updates, request>>

\* A second passes: every context with time left has one second less.
Tick ==
  /\ \E c \in Clients : ~Idle(c) /\ remaining[c] > 0
  /\ remaining' = [c \in Clients |->
                     IF ~Idle(c) /\ remaining[c] > 0 THEN remaining[c] - 1
                                                     ELSE remaining[c]]
  /\ UNCHANGED <<movies, nextId, dbUp, call, ret, updates, request>>

\* The context of c is done before the database has answered: the statement
\* is cancelled and QueryRowContext, ExecContext or QueryContext returns the
\* error of the context, which the call returns as it is.
DeadlineReturn(c) ==
  /\ ~Idle(c)
  /\ remaining[c] = 0
  /\ Return(c, [NoRet EXCEPT !.op = call[c].op, !.id = call[c].id,
                  !.arg = call[c].movie, !.movie = call[c].movie,
                  !.query = call[c].query, !.err = DeadlineExceeded])
  /\ UNCHANGED <<movies, nextId, dbUp, updates, request>>

Next ==
  \E c \in Clients :
    \/ \E in \in MovieInputs : InsertCall(c, in)
    \/ \E id \in IdInputs : GetCall(c, id)
    \/ \E id \in Ids, v \in VersionInputs, in \in MovieInputs :
         UpdateCall(c, id, v, in)
    \/ \E id \in IdInputs : DeleteCall(c, id)
    \/ InsertReturn(c)
    \/ GetReturn(c)
    \/ UpdateReturn(c)
    \/ DeleteReturn(c)
    \/ \E q \in QueryInputs : GetAllCall(c, q)
    \/ GetAllReturn(c)

Spec == Init /\ [][Next]_vars

\* The Store with a database that may stop answering and a clock: the calls
\* draw their arguments from smaller sets.
FaultIds == (FirstId - 2)..FirstId
FaultMovies == {m \in MovieInputs : m.Title = "alien"}
FaultQueries == {q \in QueryInputs : q.filters.Sort = <<"id">>}

NextFault ==
  \/ \E c \in Clients :
       \/ \E in \in FaultMovies : InsertCall(c, in)
       \/ \E id \in FaultIds : GetCall(c, id)
       \/ \E in \in FaultMovies : UpdateCall(c, FirstId, InitialVersion, in)
       \/ \E id \in FaultIds : DeleteCall(c, id)
       \/ \E q \in FaultQueries : GetAllCall(c, q)
       \/ InsertReturn(c)
       \/ GetReturn(c)
       \/ UpdateReturn(c)
       \/ DeleteReturn(c)
       \/ GetAllReturn(c)
       \/ DeadlineReturn(c)
  \/ Outage
  \/ Recover
  \/ Tick

\* Time passes, and a context whose deadline has passed ends its call.
SpecFault ==
  /\ Init
  /\ [][NextFault]_vars
  /\ WF_vars(Tick)
  /\ \A c \in Clients : WF_vars(DeadlineReturn(c))

\* ------------------------------------------------------------------ claims
\* The step in which the call of c to the operation op returns.
Returns(c, op) == call[c].op = op /\ call'[c] = NoCall

\* Two returned Update calls of different clients with the same ID and the
\* same starting Version.
SameStart(c, d) ==
  /\ c # d
  /\ ret[c].op = "Update" /\ ret[d].op = "Update"
  /\ ret[c].arg.ID = ret[d].arg.ID
  /\ ret[c].arg.Version = ret[d].arg.Version

\* C1: of two Update calls on the same ID that carry the same starting
\* Version v, one of which found the row at version v when it ran, that one
\* returns success with the stored Version at v+1 and the other returns
\* ErrEditConflict; the two never both succeed.
C1_ExactlyOneUpdateWins ==
  \A c, d \in Clients :
    SameStart(c, d) =>
      /\ ~(ret[c].err = nil /\ ret[d].err = nil)
      /\ (ret[c].found = "row" /\ ret[c].version = ret[c].arg.Version) =>
           /\ ret[c].err = nil
           /\ ret[c].movie.Version = ret[c].arg.Version + 1
           /\ ret[d].err = ErrEditConflict

\* Two Updates with the same starting Version were in flight together; one
\* has won and the other has returned ErrEditConflict.
C1_Witness ==
  \E c, d \in Clients :
    /\ SameStart(c, d)
    /\ ret[c].err = nil /\ ret[c].racing
    /\ ret[c].movie.Version = ret[c].arg.Version + 1
    /\ ret[d].err = ErrEditConflict

\* C2: the Version of every stored row is 1 plus the number of successful
\* Update statements applied to it since its Insert, and a step changes the
\* Version of a row that stays only by raising it by exactly 1.
C2_VersionCountsUpdates ==
  [][/\ \A i \in Ids :
          movies'[i] # NoRow => movies'[i].version = InitialVersion + updates'[i]
     /\ \A i \in Ids :
          (movies[i] # NoRow /\ movies'[i] # NoRow
             /\ movies'[i].version # movies[i].version) =>
            /\ movies'[i].version = movies[i].version + 1
            /\ \E c \in Clients : Returns(c, "Update") /\ ret'[c].err = nil]_vars

\* A row has been updated twice, and an Update of it has failed.
C2_Witness ==
  \E i \in Ids, c \in Clients :
    /\ movies[i] # NoRow
    /\ movies[i].version = InitialVersion + 2
    /\ ret[c].op = "Update" /\ ret[c].id = i /\ ret[c].err = ErrEditConflict

\* C3: an Update whose Version differs from the version of the stored row
\* returns ErrEditConflict and leaves the table as it was.
C3_StaleUpdateChangesNothing ==
  [][\A c \in Clients :
       (/\ Returns(c, "Update")
        /\ RowOf(movies, call[c].movie.ID) # NoRow
        /\ RowOf(movies, call[c].movie.ID).version # call[c].movie.Version)
       => /\ ret'[c].err = ErrEditConflict
          /\ movies' = movies]_vars

\* An Update has found its row at another version, above or below its own.
C3_Witness ==
  \E c, d \in Clients :
    /\ ret[c].op = "Update" /\ ret[c].found = "row"
    /\ ret[c].version > ret[c].arg.Version
    /\ ret[c].err = ErrEditConflict
    /\ ret[d].op = "Update" /\ ret[d].found = "row"
    /\ ret[d].version < ret[d].arg.Version
    /\ ret[d].err = ErrEditConflict

\* C4: an Update on an ID that has no row returns ErrEditConflict, not
\* ErrRecordNotFound, and the table stays as it was.
C4_UpdateOfNoRowConflicts ==
  [][\A c \in Clients :
       (Returns(c, "Update") /\ RowOf(movies, call[c].movie.ID) = NoRow)
       => /\ ret'[c].err = ErrEditConflict
          /\ movies' = movies]_vars

\* One Update has met a deleted row and another an ID never inserted.
C4_Witness ==
  \E c, d \in Clients :
    /\ ret[c].op = "Update" /\ ret[c].found = "deleted"
    /\ ret[c].err = ErrEditConflict
    /\ ret[d].op = "Update" /\ ret[d].found = "never"
    /\ ret[d].err = ErrEditConflict

\* C5: Get and Delete with an ID below 1 return ErrRecordNotFound in the
\* step of the call, with no statement in flight and the table untouched,
\* whether or not the database answers.
C5_BelowOneShortCircuits ==
  [][\A c \in Clients, id \in IdInputs :
       (id < 1 /\ (GetCall(c, id) \/ DeleteCall(c, id)))
       => /\ ret'[c].err = ErrRecordNotFound
          /\ ret'[c].id = id
          /\ call'[c] = NoCall
          /\ movies' = movies]_vars

\* With the database not answering, a Get and a Delete below 1 have returned.
C5_Witness ==
  \E c, d \in Clients :
    /\ ~dbUp
    /\ ret[c].op = "Get" /\ ret[c].id < 1 /\ ret[c].err = ErrRecordNotFound
    /\ ret[d].op = "Delete" /\ ret[d].id < 1 /\ ret[d].err = ErrRecordNotFound

\* C6: with the database answering, Get returns ErrRecordNotFound exactly
\* when no row has the ID and the row otherwise, Delete returns
\* ErrRecordNotFound exactly when it removed no row, and an ID whose row was
\* deleted never has a row again, so every later Get and Delete of it
\* returns ErrRecordNotFound.
C6_NotFoundIffNoRow ==
  [][/\ \A c \in Clients :
          Returns(c, "Get") =>
            IF RowOf(movies, call[c].id) = NoRow
              THEN ret'[c].err = ErrRecordNotFound
              ELSE ret'[c].err = nil
     /\ \A c \in Clients :
          Returns(c, "Delete") =>
            IF Live(movies') = Live(movies)
              THEN ret'[c].err = ErrRecordNotFound
              ELSE ret'[c].err = nil
     /\ \A i \in Ids :
          (i < nextId /\ movies[i] = NoRow) => movies'[i] = NoRow]_vars

\* After a successful Delete, a Get and a Delete of the same ID by the other
\* client have met the deleted row and returned ErrRecordNotFound.
C6_Witness ==
  \E c, d \in Clients :
    /\ ret[c].op = "Delete" /\ ret[c].err = nil
    /\ ret[d].op \in {"Get", "Delete"} /\ ret[d].id = ret[c].id
    /\ ret[d].found = "deleted" /\ ret[d].err = ErrRecordNotFound

\* C7: Delete of an ID that has a row succeeds and removes the row whatever
\* its version, and no Delete returns ErrEditConflict.
C7_DeleteIgnoresVersion ==
  [][\A c \in Clients :
       Returns(c, "Delete") =>
         /\ ret'[c].err # ErrEditConflict
         /\ RowOf(movies, call[c].id) # NoRow =>
              /\ ret'[c].err = nil
              /\ movies'[call[c].id] = NoRow]_vars

\* A Delete has removed a row that the Update of the other client had just
\* raised to the version the Delete found.
C7_Witness ==
  \E c, d \in Clients :
    /\ ret[c].op = "Delete" /\ ret[c].err = nil
    /\ ret[c].version > InitialVersion
    /\ ret[d].op = "Update" /\ ret[d].err = nil /\ ret[d].id = ret[c].id
    /\ ret[d].movie.Version = ret[c].version

\* C8: a Get of the ID of an inserted movie, whose row no Update or Delete
\* has written since, returns the movie as Insert left it in the caller's
\* struct: the inserted Title, Year, Runtime and Genres, Version 1, and the
\* ID and CreatedAt written back.
C8_InsertGetRoundTrip ==
  [][\A c, d \in Clients :
       (/\ Returns(d, "Get")
        /\ ret[c].op = "Insert" /\ ret[c].err = nil
        /\ ret[c].movie.ID = call[d].id
        /\ RowOf(movies, call[d].id) # NoRow
        /\ updates[call[d].id] = 0)
       => /\ ret'[d].err = nil
          /\ ret'[d].movie = ret[c].movie
          /\ ret'[d].movie.Title = ret[c].arg.Title
          /\ ret'[d].movie.Year = ret[c].arg.Year
          /\ ret'[d].movie.Runtime = ret[c].arg.Runtime
          /\ ret'[d].movie.Genres = ret[c].arg.Genres
          /\ ret'[d].movie.Version = 1
          /\ ret'[d].movie.ID >= 1
          /\ ret'[d].movie.CreatedAt \in Timestamps]_vars

\* A Get has returned the movie another client inserted.
C8_Witness ==
  \E c, d \in Clients :
    /\ ret[c].op = "Insert" /\ ret[c].err = nil
    /\ ret[d].op = "Get" /\ ret[d].err = nil
    /\ ret[d].movie = ret[c].movie
    /\ ret[d].movie.Genres = <<"comedy", "scifi">>

\* C9: a successful Update leaves the id and created_at of its row, every
\* other row, and the sequence as they were.
C9_UpdateFrame ==
  [][\A c \in Clients :
       (Returns(c, "Update") /\ ret'[c].err = nil) =>
         LET id == call[c].movie.ID
         IN /\ movies'[id].id = movies[id].id
            /\ movies'[id].created_at = movies[id].created_at
            /\ \A i \in Ids \ {id} : movies'[i] = movies[i]
            /\ nextId' = nextId]_vars

\* An Update has succeeded while the table held another row at the Version
\* the Update carried.
C9_Witness ==
  \E c \in Clients, i \in Ids :
    /\ ret[c].op = "Update" /\ ret[c].err = nil
    /\ i # ret[c].id
    /\ movies[i] # NoRow /\ movies[i].version = ret[c].arg.Version

\* C10: every call starts a deadline of its own, Timeout from its start;
\* a call in flight when its deadline passes returns the error of its
\* context; and every call in flight eventually returns, also when the
\* database never answers.
C10_DeadlineBoundsEveryCall ==
  /\ [][\A c \in Clients :
          /\ (call[c] = NoCall /\ call'[c] # NoCall) => remaining'[c] = Timeout
          /\ (call[c] # NoCall /\ remaining[c] = 0 /\ call'[c] = NoCall) =>
               ret'[c].err = DeadlineExceeded]_vars
  /\ \A c \in Clients : (call[c] # NoCall) ~> (call[c] = NoCall)

\* A call has returned the deadline error, and the call another client
\* started since has its whole Timeout left.
C10_Witness ==
  \E c, d \in Clients :
    /\ ret[c].op \in {"Insert", "Get", "Update", "Delete", "GetAll"}
    /\ ret[c].err = DeadlineExceeded
    /\ call[d] # NoCall /\ remaining[d] = Timeout
    /\ ~dbUp

\* ------------------------------------------------- the caller's own context
Canceled == "context.Canceled"

\* The context of the request c serves is cancelled while its Store call
\* waits for the database.  The Store takes no context from its caller: the
\* context of the statement is derived from context.Background(), so the
\* statement and its deadline go on as they were.
CallerCancel(c) ==
  /\ ~Idle(c)
  /\ ~cancelled[c]
  /\ cancelled' = [cancelled EXCEPT ![c] = TRUE]
  /\ UNCHANGED <<movies, nextId, dbUp, call, remaining, ret, updates,
                 walk, openRows, input, Errors, applied, handler>>

\* The handler of the cancelled request has returned; the next request c
\* serves has a context of its own.
ServeNext(c) ==
  /\ Idle(c)
  /\ cancelled[c]
  /\ cancelled' = [cancelled EXCEPT ![c] = FALSE]
  /\ UNCHANGED <<movies, nextId, dbUp, call, remaining, ret, updates,
                 walk, openRows, input, Errors, applied, handler>>

\* The Store under outages and a clock, with callers whose contexts may be
\* cancelled; a request starts its Store call with a live context.
NextCancel ==
  \/ \E c \in Clients :
       \/ ~cancelled[c] /\ \E in \in FaultMovies : InsertCall(c, in)
       \/ ~cancelled[c] /\ GetCall(c, FirstId)
       \/ ~cancelled[c] /\ \E in \in FaultMovies :
                               UpdateCall(c, FirstId, InitialVersion, in)
       \/ ~cancelled[c] /\ DeleteCall(c, FirstId)
       \/ ~cancelled[c] /\ \E q \in FaultQueries : GetAllCall(c, q)
       \/ InsertReturn(c)
       \/ GetReturn(c)
       \/ UpdateReturn(c)
       \/ DeleteReturn(c)
       \/ GetAllReturn(c)
       \/ DeadlineReturn(c)
       \/ CallerCancel(c)
       \/ ServeNext(c)
  \/ Outage
  \/ Recover
  \/ Tick

SpecCancel ==
  /\ Init
  /\ [][NextCancel]_vars
  /\ WF_vars(Tick)
  /\ \A c \in Clients : WF_vars(DeadlineReturn(c))

\* C11: once the context of the caller is cancelled while its Store call
\* waits for the database, the call waits no further second of its deadline
\* and, when it returns, returns the cancellation error, not the answer of
\* the database and not the deadline error.
C11_CallerCancelAborts ==
  [][\A c \in Clients :
       (cancelled[c] /\ call[c] # NoCall) =>
         /\ remaining'[c] >= remaining[c] \/ call'[c] = NoCall
         /\ call'[c] = NoCall => ret'[c].err = Canceled]_vars

\* ------------------------------------------------ paging through a catalog
\* The movies of a catalog: the client inputs and a 1985 remake of "alien",
\* which shares its title and runtime with one and its year with the other.
CatalogMovies ==
  MovieInputs \cup
    { [Title |-> "alien", Year |-> 1985, Runtime |-> 117, Genres |-> <<"scifi">>] }

RowIds == FirstId..MaxRows

\* The instant the catalog was loaded at: the first of the clock.
Loaded == CHOOSE t \in Timestamps : \A u \in Timestamps : t <= u

\* The tables Insert and Delete leave behind: under each ID no row or the row
\* Insert made of one of the movies.
Tables ==
  { tbl \in [RowIds -> {NoRow} \cup
               {InsertRow(i, NewMovie(in), Loaded) :
                  i \in RowIds, in \in CatalogMovies}] :
      \A i \in RowIds : tbl[i] = NoRow \/ tbl[i].id = i }

InitGetAll ==
  /\ movies \in Tables
  /\ nextId = MaxRows + 1
  /\ dbUp = TRUE
  /\ call = [c \in Clients |-> NoCall]
  /\ remaining = [c \in Clients |-> 0]
  /\ ret = [c \in Clients |-> NoRet]
  /\ updates = [i \in RowIds |-> 0]
  /\ InitRequest

TitleInputs == {"", "alien"}
GenresInputs == {<<>>, <<"scifi">>, <<"horror", "scifi">>}
SortInputs == Elems(Safelist) \cup {<<"rating">>}
PageSizes == 1..MaxRows

\* The caller that the specifications of a single caller follow.
Caller == CHOOSE c \in Clients : \A d \in Clients : c <= d

\* Two queries that differ in nothing but the Page.
SamePaging(q, r) == [q EXCEPT !.filters.Page = 0] = [r EXCEPT !.filters.Page = 0]

\* The caller asks for the first page, or for the page after the one it has
\* just collected if that one held rows.
PageCall(c, q) ==
  /\ q.filters.Page = Len(walk[c]) + 1
  /\ IF walk[c] = <<>>
       THEN ret[c] = NoRet
       ELSE /\ ret[c].op = "GetAll" /\ ret[c].err = nil
            /\ ret[c].query.filters.Page = Len(walk[c])
            /\ ret[c].list # <<>>
            /\ SamePaging(q, ret[c].query)
  /\ GetAllCall(c, q)

\* The caller keeps the page GetAll returned.
Collect(c) ==
  /\ Idle(c)
  /\ ret[c].op = "GetAll" /\ ret[c].err = nil
  /\ ret[c].query.filters.Page = Len(walk[c]) + 1
  /\ walk' = [walk EXCEPT ![c] = Append(@, ret[c].list)]
  /\ UNCHANGED <<movies, nextId, dbUp, call, remaining, ret, updates,
                 cancelled, openRows, input, Errors, applied, handler>>

\* The errors of rows.Scan and of rows.Err.
ScanError == "sql: Scan error"
RowsError == "driver: bad connection"

\* rows.Scan fails on a row of the page: GetAll returns the error from
\* inside the loop.  Nothing has closed the result set: rows.Next() has not
\* returned false and the function defers cancel(), not rows.Close().
GetAllScanErr(c) ==
  /\ call[c].op = "GetAll"
  /\ Answered(c)
  /\ GetAllRows(movies, call[c].query) # <<>>
  /\ openRows' = [openRows EXCEPT ![c] = @ + 1]
  /\ Return(c, [NoRet EXCEPT !.op = "GetAll", !.query = call[c].query,
                  !.err = ScanError])
  /\ UNCHANGED <<movies, nextId, dbUp, updates,
                 cancelled, walk, input, Errors, applied, handler>>

\* The iteration breaks off: rows.Next() returns false, which closes the
\* result set, and GetAll returns the error rows.Err() reports.
GetAllRowsErr(c) ==
  /\ call[c].op = "GetAll"
  /\ Answered(c)
  /\ Return(c, [NoRet EXCEPT !.op = "GetAll", !.query = call[c].query,
                  !.err = RowsError])
  /\ UNCHANGED <<movies, nextId, dbUp, updates, request>>

\* The deferred cancel() has cancelled the context of the query; the
\* goroutine database/sql started to watch that context closes the result
\* set, some time after GetAll has returned.
RowsAwaitDone(c) ==
  /\ openRows[c] > 0
  /\ openRows' = [openRows EXCEPT ![c] = @ - 1]
  /\ UNCHANGED <<movies, nextId, dbUp, call, remaining, ret, updates,
                 cancelled, walk, input, Errors, applied, handler>>

NextGetAll ==
  \/ \E title \in TitleInputs, genres \in GenresInputs, page \in 1..(MaxRows + 1),
         pageSize \in PageSizes, sort \in SortInputs :
       PageCall(Caller, Query(title, genres, page, pageSize, sort))
  \/ GetAllReturn(Caller)
  \/ Collect(Caller)
  \/ GetAllScanErr(Caller)
  \/ GetAllRowsErr(Caller)
  \/ RowsAwaitDone(Caller)

\* GetAll over a table that no call changes.
SpecGetAll == InitGetAll /\ [][NextGetAll]_vars

\* The movies stored, as Movie structs.
Stored == {ScanMovie(movies[i]) : i \in Live(movies)}

\* A movie passes the title query and the genre list of a request.
Selected(m, title, genres) ==
  /\ title = "" \/ TsMatch(m.Title, title)
  /\ genres = <<>> \/ \A i \in 1..Len(genres) : genres[i] \in Elems(m.Genres)

Matching(q) == {m \in Stored : Selected(m, q.title, q.genres)}

\* The value a movie is sorted by under a Sort value, and whether movie a
\* stands before movie b: by that value in the direction of the Sort, and
\* by ascending ID between equal values.
SortKey(m, sort) ==
  LET field == IF sort[1] = "-" THEN Tail(sort) ELSE sort
  IN CASE field = <<"id">> -> m.ID
       [] field = <<"title">> -> TitleRank(m.Title)
       [] field = <<"year">> -> m.Year
       [] field = <<"runtime">> -> m.Runtime

Precedes(a, b, sort) ==
  IF SortKey(a, sort) = SortKey(b, sort) THEN a.ID < b.ID
  ELSE IF sort[1] = "-" THEN SortKey(a, sort) > SortKey(b, sort)
  ELSE SortKey(a, sort) < SortKey(b, sort)

Sorted(list, sort) ==
  \A i, j \in 1..Len(list) : i < j => Precedes(list[i], list[j], sort)

RECURSIVE Concat(_)
Concat(pages) ==
  IF pages = <<>> THEN <<>> ELSE Head(pages) \o Concat(Tail(pages))

\* The caller has paged to the end: the last page it collected is empty.
WalkDone(c) == walk[c] # <<>> /\ walk[c][Len(walk[c])] = <<>>

\* C12: the Metadata of every successful GetAll carries as TotalRecords the
\* number of stored movies that pass the title query and the genre list,
\* whatever the Page, a page past the last one included.
C12_TotalRecordsCountsMatches ==
  \A c \in Clients :
    (ret[c].op = "GetAll" /\ ret[c].err = nil) =>
      ret[c].metadata.TotalRecords = Cardinality(Matching(ret[c].query))

\* C13: over an unchanged table, the pages 1..ceil(N/PageSize) of one query
\* are all the pages that hold rows, hold each of the N matching movies on
\* exactly one page, and put end to end are the matching movies ordered by
\* (sort column, ID).
C13_PagesPartitionTheOrdering ==
  \A c \in Clients :
    WalkDone(c) =>
      LET q == ret[c].query
          N == Cardinality(Matching(q))
          last == CeilDiv(N, q.filters.PageSize)
          all == Concat(walk[c])
      IN /\ Len(walk[c]) = last + 1
         /\ \A p \in 1..last : walk[c][p] # <<>>
         /\ Len(all) = N
         /\ Elems(all) = Matching(q)
         /\ \A m \in Matching(q) :
              Cardinality({p \in 1..last : m \in Elems(walk[c][p])}) = 1
         /\ Sorted(all, q.filters.Sort)

\* Three movies, two of them equal in the sort column, have been paged
\* through one by one, in descending order.
C13_Witness ==
  \E c \in Clients :
    /\ WalkDone(c)
    /\ Len(walk[c]) = 4
    /\ ret[c].query.filters.Sort = <<"-", "year">>
    /\ ret[c].query.filters.PageSize = 1
    /\ walk[c][1][1].Year = walk[c][2][1].Year
    /\ walk[c][2][1].Year # walk[c][3][1].Year

C15_PagedSetIsTheSelection ==
  \A c \in Clients :
    WalkDone(c) =>
      LET q == ret[c].query
          paged == Elems(Concat(walk[c]))
      IN /\ \A m \in Stored :
              m \in paged <=>
                /\ q.title = "" \/ TsMatch(m.Title, q.title)
                /\ q.genres = <<>> \/ Elems(q.genres) \subseteq Elems(m.Genres)
         /\ paged \subseteq Stored
         /\ (q.title = "" /\ q.genres = <<>>) => paged = Stored

\* A title query and a list of two genres have been paged to the end over a
\* catalog in which a movie has only one of the two genres: the walk left
\* out a stored movie, and kept none.
C15_Witness ==
  \E c \in Clients :
    /\ WalkDone(c)
    /\ Len(ret[c].query.genres) = 2
    /\ \E m \in Stored : Elems(m.Genres) \cap Elems(ret[c].query.genres) # {}
    /\ Concat(walk[c]) = <<>>

\* --------------------------------------------------------------- validation
\* The Validator: a map of failures by key; a key keeps the first message
\* recorded under it.
AddError(errs, key, message) ==
  IF key \in DOMAIN errs THEN errs
  ELSE [k \in DOMAIN errs \cup {key} |-> IF k = key THEN message ELSE errs[k]]

Check(errs, ok, key, message) == IF ok THEN errs ELSE AddError(errs, key, message)

Valid(errs) == DOMAIN errs = {}

\* validator.In: the value is one of the list.
In(value, list) == \E i \in 1..Len(list) : list[i] = value

\* validator.Unique: no value of the slice occurs twice.
Unique(values) == Cardinality(Elems(values)) = Len(values)

\* Mutant: the page size checked against the maximum of the page.
ValidateFiltersPageSizeAsPage(errs, f) ==
  LET e1 == Check(errs, f.Page > 0, "page", "must be greater that zero")
      e2 == Check(e1, f.Page <= 10000000, "page", "must be a maximum that 10 million")
      e3 == Check(e2, f.PageSize > 0, "page_size", "must be greater than zero")
      e4 == Check(e3, f.PageSize <= 10000000, "page_size", "must be a maximum of 100")
  IN Check(e4, In(f.Sort, f.SortSafelist), "sort", "invalid sort value")

ValidateFilters(errs, f) ==
  LET e1 == Check(errs, f.Page > 0, "page", "must be greater that zero")
      e2 == Check(e1, f.Page <= 10000000, "page", "must be a maximum that 10 million")
      e3 == Check(e2, f.PageSize > 0, "page_size", "must be greater than zero")
      e4 == Check(e3, f.PageSize <= 100, "page_size", "must be a maximum of 100")
  IN Check(e4, In(f.Sort, f.SortSafelist), "sort", "invalid sort value")

\* The Filters of the requests: Page and PageSize at and beside the ends of
\* their ranges, Sort in and out of the safelist.
PageInputs == {0 - 1, 0, 1, 10000000, 10000001}
PageSizeInputs == {0 - 1, 0, 1, 100, 101}
FiltersInputs ==
  { [Page |-> page, PageSize |-> pageSize, Sort |-> sort, SortSafelist |-> Safelist] :
      page \in PageInputs, pageSize \in PageSizeInputs,
      sort \in {<<"id">>, <<"-", "year">>, <<"rating">>, <<"-", "rating">>,
                <<"-", "-", "id">>, <<>>} }

\* The Store with an empty table and no call in flight.
InitStore ==
  /\ movies = [i \in Ids |-> NoRow]
  /\ nextId = FirstId
  /\ dbUp = TRUE
  /\ call = [c \in Clients |-> NoCall]
  /\ remaining = [c \in Clients |-> 0]
  /\ ret = [c \in Clients |-> NoRet]
  /\ updates = [i \in Ids |-> 0]

InitFilters ==
  /\ InitStore
  /\ cancelled = [c \in Clients |-> FALSE]
  /\ walk = [c \in Clients |-> <<>>]
  /\ openRows = [c \in Clients |-> 0]
  /\ \E f \in FiltersInputs :
       input = [c \in Clients |->
                  IF c = Caller THEN [NoInput EXCEPT !.filters = f] ELSE NoInput]
  /\ Errors = [c \in Clients |-> NoErrors]
  /\ applied = [c \in Clients |-> NoneApplied]
  /\ handler = [c \in Clients |-> NoHandler]

\* v := validator.New(); data.ValidateFilters(v, input.Filters)
ValidateFiltersStep(c) ==
  /\ "ValidateFilters" \notin applied[c].called
  /\ Errors' = [Errors EXCEPT ![c] = ValidateFilters(NoErrors, input[c].filters)]
  /\ applied' = [applied EXCEPT ![c].called = @ \cup {"ValidateFilters"}]
  /\ UNCHANGED <<movies, nextId, dbUp, call, remaining, ret, updates,
                 cancelled, walk, openRows, input, handler>>

\* filters.sortColumn(), as GetAll calls it to build its ORDER BY clause.
SortColumnStep(c) ==
  /\ "sortColumn" \notin applied[c].called
  /\ LET column == sortColumn(input[c].filters)
     IN applied' =
          [applied EXCEPT ![c] =
             IF column = Panic
               THEN [@ EXCEPT !.called = @ \cup {"sortColumn"},
                              !.panicked = @ \cup {"sortColumn"}]
               ELSE [@ EXCEPT !.called = @ \cup {"sortColumn"},
                              !.column = column]]
  /\ UNCHANGED <<movies, nextId, dbUp, call, remaining, ret, updates,
                 cancelled, walk, openRows, input, Errors, handler>>

\* filters.sortDirection(): it has no panic statement and always returns.
SortDirectionStep(c) ==
  /\ "sortDirection" \notin applied[c].called
  /\ applied' = [applied EXCEPT
                   ![c].called = @ \cup {"sortDirection"},
                   ![c].direction = sortDirection(input[c].filters)]
  /\ UNCHANGED <<movies, nextId, dbUp, call, remaining, ret, updates,
                 cancelled, walk, openRows, input, Errors, handler>>

\* filters.limit() and filters.offset(), the arguments GetAll binds to the
\* LIMIT and OFFSET placeholders of its query.
LimitStep(c) ==
  /\ "limit" \notin applied[c].called
  /\ applied' = [applied EXCEPT
                   ![c].called = @ \cup {"limit"},
                   ![c].limit = limit(input[c].filters)]
  /\ UNCHANGED <<movies, nextId, dbUp, call, remaining, ret, updates,
                 cancelled, walk, openRows, input, Errors, handler>>

OffsetStep(c) ==
  /\ "offset" \notin applied[c].called
  /\ applied' = [applied EXCEPT
                   ![c].called = @ \cup {"offset"},
                   ![c].offset = offset(input[c].filters)]
  /\ UNCHANGED <<movies, nextId, dbUp, call, remaining, ret, updates,
                 cancelled, walk, openRows, input, Errors, handler>>

NextFilters ==
  \/ ValidateFiltersStep(Caller)
  \/ SortColumnStep(Caller)
  \/ SortDirectionStep(Caller)
  \/ LimitStep(Caller)
  \/ OffsetStep(Caller)

\* The functions of Filters applied to the Filters of one request.
SpecFilters == InitFilters /\ [][NextFilters]_vars

\* C16: ValidateFilters records no failure exactly when Page is from 1 to
\* 10,000,000, PageSize from 1 to 100 and Sort an entry of SortSafelist, and
\* otherwise records a failure under the key of each field that is not, and
\* under no other key.
C16_ValidateFiltersBounds ==
  \A c \in Clients :
    "ValidateFilters" \in applied[c].called =>
      LET f == input[c].filters
          pageOk == 1 <= f.Page /\ f.Page <= 10000000
          pageSizeOk == 1 <= f.PageSize /\ f.PageSize <= 100
          sortOk == f.Sort \in Elems(f.SortSafelist)
      IN /\ Errors[c] = NoErrors <=> (pageOk /\ pageSizeOk /\ sortOk)
         /\ "page" \in DOMAIN Errors[c] <=> ~pageOk
         /\ "page_size" \in DOMAIN Errors[c] <=> ~pageSizeOk
         /\ "sort" \in DOMAIN Errors[c] <=> ~sortOk
         /\ DOMAIN Errors[c] \subseteq {"page", "page_size", "sort"}

\* Filters with Page and PageSize one above their maximum and a Sort that
\* is not in the safelist have been validated: three failures.
C16_Witness ==
  \E c \in Clients :
    /\ "ValidateFilters" \in applied[c].called
    /\ input[c].filters.Page = 10000001
    /\ input[c].filters.PageSize = 101
    /\ input[c].filters.Sort = <<"rating">>
    /\ DOMAIN Errors[c] = {"page", "page_size", "sort"}

\* time.Now().Year(), the calendar year in which the requests are served.
ThisYear == 2026

\* A title of 501 bytes.
LongTitle == "a title of 501 bytes"

\* len(movie.Title), in bytes, of the titles of the model.
ByteLen(title) ==
  CASE title = "" -> 0
    [] title = "alien" -> 5
    [] title = "brazil" -> 6
    [] title = LongTitle -> 501

\* Mutant: up to six genres let through, len(movie.Genres) <= 6.
ValidateMovieSixGenres(errs, movie) ==
  LET e1 == Check(errs, movie.Title # "", "title", "must be provided")
      e2 == Check(e1, ByteLen(movie.Title) <= 500, "title",
                  "must not be more that 500 bytes long")
      e3 == Check(e2, movie.Year # 0, "year", "must be provided")
      e4 == Check(e3, movie.Year >= 1888, "year", "must be greater than 1888")
      e5 == Check(e4, movie.Year <= ThisYear, "year", "must not be in the future")
      e6 == Check(e5, movie.Runtime # 0, "runtime", "must be provided")
      e7 == Check(e6, movie.Runtime > 0, "runtime", "must be a positive integer")
      e8 == Check(e7, movie.Genres # <<>>, "genres", "must be provided")
      e9 == Check(e8, Len(movie.Genres) >= 1, "genres",
                  "must contain at least 1 genre")
      e10 == Check(e9, Len(movie.Genres) <= 6, "genres",
                   "must bot contain more that 5 genres")
  IN Check(e10, Unique(movie.Genres), "genres",
           "must not contain duplicate values")

\* ValidateMovie; a nil Genres slice is the empty sequence.
ValidateMovie(errs, movie) ==
  LET e1 == Check(errs, movie.Title # "", "title", "must be provided")
      e2 == Check(e1, ByteLen(movie.Title) <= 500, "title",
                  "must not be more that 500 bytes long")
      e3 == Check(e2, movie.Year # 0, "year", "must be provided")
      e4 == Check(e3, movie.Year >= 1888, "year", "must be greater than 1888")
      e5 == Check(e4, movie.Year <= ThisYear, "year", "must not be in the future")
      e6 == Check(e5, movie.Runtime # 0, "runtime", "must be provided")
      e7 == Check(e6, movie.Runtime > 0, "runtime", "must be a positive integer")
      e8 == Check(e7, movie.Genres # <<>>, "genres", "must be provided")
      e9 == Check(e8, Len(movie.Genres) >= 1, "genres",
                  "must contain at least 1 genre")
      e10 == Check(e9, Len(movie.Genres) <= 5, "genres",
                   "must bot contain more that 5 genres")
  IN Check(e10, Unique(movie.Genres), "genres",
           "must not contain duplicate values")

\* The movies of the requests: a valid movie, and the movies that differ
\* from it in one field, or in three.
ValidMovie == NewMovie(CHOOSE in \in MovieInputs : in.Title = "alien")
SixGenres == <<"action", "comedy", "crime", "drama", "horror", "scifi">>
MovieChecks ==
  {[ValidMovie EXCEPT !.Title = t] : t \in {"", "alien", LongTitle}}
  \cup {[ValidMovie EXCEPT !.Year = y] :
          y \in {0, 1887, 1888, ThisYear, ThisYear + 1}}
  \cup {[ValidMovie EXCEPT !.Runtime = r] : r \in {0 - 1, 0}}
  \cup {[ValidMovie EXCEPT !.Genres = g] :
          g \in {<<>>, SubSeq(SixGenres, 1, 5), SixGenres, <<"horror", "horror">>,
                 <<"horror">> \o SubSeq(SixGenres, 1, 5)}}
  \cup {[ValidMovie EXCEPT !.Title = "", !.Year = ThisYear + 1,
                            !.Genres = SixGenres]}

InitMovies ==
  /\ InitStore
  /\ cancelled = [c \in Clients |-> FALSE]
  /\ walk = [c \in Clients |-> <<>>]
  /\ openRows = [c \in Clients |-> 0]
  /\ input \in [Clients -> {[NoInput EXCEPT !.movie = m] : m \in MovieChecks}]
  /\ Errors = [c \in Clients |-> NoErrors]
  /\ applied = [c \in Clients |-> NoneApplied]
  /\ handler = [c \in Clients |-> NoHandler]

\* v := validator.New(); data.ValidateMovie(v, movie)
ValidateMovieStep(c) ==
  /\ "ValidateMovie" \notin applied[c].called
  /\ Errors' = [Errors EXCEPT ![c] = ValidateMovie(NoErrors, input[c].movie)]
  /\ applied' = [applied EXCEPT ![c].called = @ \cup {"ValidateMovie"}]
  /\ UNCHANGED <<movies, nextId, dbUp, call, remaining, ret, updates,
                 cancelled, walk, openRows, input, handler>>

NextMovies == \E c \in Clients : ValidateMovieStep(c)

\* ValidateMovie applied to the movie of each request.
SpecMovies == InitMovies /\ [][NextMovies]_vars

\* Which of the four rules a movie breaks.
Broken(m) ==
  {rule \in {"six genres", "duplicate genres", "future year", "empty title"} :
     \/ rule = "six genres" /\ Len(m.Genres) = 6
     \/ rule = "duplicate genres" /\ \E i, j \in 1..Len(m.Genres) :
                                        i < j /\ m.Genres[i] = m.Genres[j]
     \/ rule = "future year" /\ m.Year > ThisYear
     \/ rule = "empty title" /\ m.Title = ""}

\* The field a rule is about.
FieldOf(rule) ==
  CASE rule = "six genres" -> "genres"
    [] rule = "duplicate genres" -> "genres"
    [] rule = "future year" -> "year"
    [] rule = "empty title" -> "title"

\* C17: a movie with 6 genres, with duplicate genres, with a Year after the
\* current year or with an empty Title is rejected with a failure under the
\* key of the field; and two movies that each break one of these four rules
\* and no other, not the same one, get failures that differ.
C17_ValidateMovieRejects ==
  \A c \in Clients :
    "ValidateMovie" \in applied[c].called =>
      /\ \A rule \in Broken(input[c].movie) :
           ~Valid(Errors[c]) /\ FieldOf(rule) \in DOMAIN Errors[c]
      /\ \A d \in Clients :
           (/\ "ValidateMovie" \in applied[d].called
            /\ Cardinality(Broken(input[c].movie)) = 1
            /\ Cardinality(Broken(input[d].movie)) = 1
            /\ Broken(input[c].movie) # Broken(input[d].movie))
           => /\ Cardinality(DOMAIN Errors[c]) = 1
              /\ Cardinality(DOMAIN Errors[d]) = 1
              /\ Errors[c] # Errors[d]

\* A movie with six genres and a movie with a genre twice have both been
\* rejected under the key "genres", with different failures.
C17_Witness ==
  \E c, d \in Clients :
    /\ "ValidateMovie" \in applied[c].called
    /\ "ValidateMovie" \in applied[d].called
    /\ Broken(input[c].movie) = {"six genres"}
    /\ Broken(input[d].movie) = {"duplicate genres"}
    /\ DOMAIN Errors[c] = {"genres"} /\ DOMAIN Errors[d] = {"genres"}
    /\ Errors[c] # Errors[d]

\* C18: when Update returns success, the Version of the Movie the caller
\* passed is the version of the stored row after the statement, which is the
\* Version the caller passed plus 1.
C18_UpdateWritesVersionBack ==
  [][\A c \in Clients :
       (Returns(c, "Update") /\ ret'[c].err = nil) =>
         /\ ret'[c].movie.Version = movies'[call[c].movie.ID].version
         /\ ret'[c].movie.Version = call[c].movie.Version + 1
         /\ ret'[c].movie.ID = call[c].movie.ID
         /\ ret'[c].movie.Title = call[c].movie.Title]_vars

\* An Update that started from Version 2 has returned success; its Movie
\* and the stored row are at version 3.
C18_Witness ==
  \E c \in Clients :
    /\ ret[c].op = "Update" /\ ret[c].err = nil
    /\ ret[c].arg.Version = InitialVersion + 1
    /\ ret[c].movie.Version = InitialVersion + 2
    /\ movies[ret[c].id] # NoRow
    /\ movies[ret[c].id].version = ret[c].movie.Version

\* C19: GetAll has released the result set of its query whenever it has
\* returned: after the last row, after a Scan error inside the loop and
\* after an error of the iteration.
C19_RowsReleasedOnReturn ==
  \A c \in Clients :
    (Idle(c) /\ ret[c].op = "GetAll") => openRows[c] = 0

\* C20: on Filters whose Sort is not an entry of SortSafelist, sortColumn
\* and sortDirection panic instead of returning; on Filters whose Sort is
\* one, sortColumn returns the Sort without one leading hyphen.
C20_UnsafeSortPanics ==
  \A c \in Clients :
    LET f == input[c].filters
        safe == f.Sort \in Elems(f.SortSafelist)
        a == applied[c]
    IN /\ ~safe =>
            a.called \cap {"sortColumn", "sortDirection"} \subseteq a.panicked
       /\ (safe /\ "sortColumn" \in a.called) =>
            /\ "sortColumn" \notin a.panicked
            /\ a.column = IF f.Sort[1] = "-" THEN Tail(f.Sort) ELSE f.Sort

\* ------------------------------------------------- the pagination metadata
\* The counts, pages and page sizes calculateMetadata is applied to: counts
\* that are and are not multiples of the page size, beside the 195 records
\* of 20 a page.
TotalInputs == {0, 1, 19, 20, 21, 195, 200}
MetadataPages == {0 - 1, 0, 1, 2, 10}
MetadataPageSizes == {1, 2, 20, 100}

\* The arguments of a call: with no record counted, any page size, zero and
\* below included; a query that counted a record had a LIMIT of 1 or more.
MetadataInputs ==
  { [NoInput EXCEPT !.totalRecords = t, !.filters.Page = page,
                    !.filters.PageSize = pageSize] :
      t \in TotalInputs, page \in MetadataPages,
      pageSize \in MetadataPageSizes }
  \cup
  { [NoInput EXCEPT !.filters.Page = page, !.filters.PageSize = pageSize] :
      page \in MetadataPages, pageSize \in {0 - 1, 0} }

InitMetadata ==
  /\ InitStore
  /\ cancelled = [c \in Clients |-> FALSE]
  /\ walk = [c \in Clients |-> <<>>]
  /\ openRows = [c \in Clients |-> 0]
  /\ \E in \in MetadataInputs :
       input = [c \in Clients |-> IF c = Caller THEN in ELSE NoInput]
  /\ Errors = [c \in Clients |-> NoErrors]
  /\ applied = [c \in Clients |-> NoneApplied]
  /\ handler = [c \in Clients |-> NoHandler]

\* metadata := calculateMetadata(totalRecords, filters.Page, filters.PageSize)
CalculateMetadataStep(c) ==
  /\ "calculateMetadata" \notin applied[c].called
  /\ applied' = [applied EXCEPT
                   ![c].called = @ \cup {"calculateMetadata"},
                   ![c].metadata =
                      calculateMetadata(input[c].totalRecords,
                        input[c].filters.Page, input[c].filters.PageSize)]
  /\ UNCHANGED <<movies, nextId, dbUp, call, remaining, ret, updates,
                 cancelled, walk, openRows, input, Errors, handler>>

NextMetadata == CalculateMetadataStep(Caller)

\* calculateMetadata applied to the count and the Filters of one request.
SpecMetadata == InitMetadata /\ [][NextMetadata]_vars

\* C21: calculateMetadata returns the Metadata with every field 0 when
\* totalRecords is 0, whatever page and pageSize; otherwise CurrentPage is
\* page, PageSize pageSize, FirstPage 1, TotalRecords totalRecords, and
\* LastPage the least L with L * pageSize >= totalRecords, which is 10 for
\* 195 records, page 2 and 20 a page.
C21_MetadataOfCount ==
  \A c \in Clients :
    "calculateMetadata" \in applied[c].called =>
      LET t == input[c].totalRecords
          page == input[c].filters.Page
          pageSize == input[c].filters.PageSize
          m == applied[c].metadata
      IN /\ t = 0 =>
              /\ m.CurrentPage = 0 /\ m.PageSize = 0 /\ m.FirstPage = 0
              /\ m.LastPage = 0 /\ m.TotalRecords = 0
         /\ t # 0 =>
              /\ m.CurrentPage = page /\ m.PageSize = pageSize
              /\ m.FirstPage = 1 /\ m.TotalRecords = t
              /\ m.LastPage * pageSize >= t
              /\ \A L \in 0..t : L * pageSize >= t => m.LastPage <= L
         /\ (t = 195 /\ page = 2 /\ pageSize = 20) => m.LastPage = 10

\* The Metadata of 195 records, page 2, 20 a page has been calculated: the
\* last page is the tenth, which holds the 15 records after the 180 before.
C21_Witness ==
  \E c \in Clients :
    /\ "calculateMetadata" \in applied[c].called
    /\ input[c].totalRecords = 195
    /\ input[c].filters.Page = 2 /\ input[c].filters.PageSize = 20
    /\ applied[c].metadata =
         [CurrentPage |-> 2, PageSize |-> 20, FirstPage |-> 1, LastPage |-> 10,
          TotalRecords |-> 195]

\* C22: on Filters that ValidateFilters accepts, offset() is the number of
\* rows on the pages before Page, (Page-1)*PageSize, a number from 0 to
\* 999,999,900 that a signed 32-bit int holds; limit() is PageSize; and
\* sortDirection() is "DESC" when Sort starts with a hyphen and "ASC" when
\* it does not.
C22_ValidFiltersArithmetic ==
  \A c \in Clients :
    LET f == input[c].filters
        a == applied[c]
    IN ("ValidateFilters" \in a.called /\ Valid(Errors[c])) =>
         /\ "offset" \in a.called =>
              /\ a.offset + f.PageSize = f.Page * f.PageSize
              /\ f.Page = 1 => a.offset = 0
              /\ 0 <= a.offset /\ a.offset <= 999999900
              /\ a.offset <= 2147483647 /\ f.Page * f.PageSize <= 2147483647
         /\ "limit" \in a.called => a.limit = f.PageSize
         /\ "sortDirection" \in a.called =>
              /\ a.direction \in {"ASC", "DESC"}
              /\ a.direction = "DESC" <=> (f.Sort # <<>> /\ f.Sort[1] = "-")

\* Filters with the largest Page and PageSize and a descending Sort have
\* been accepted: the offset is 999,999,900 and the limit 100.
C22_Witness ==
  \E c \in Clients :
    /\ "ValidateFilters" \in applied[c].called /\ Valid(Errors[c])
    /\ {"offset", "limit", "sortDirection"} \subseteq applied[c].called
    /\ input[c].filters.Page = 10000000 /\ input[c].filters.PageSize = 100
    /\ applied[c].offset = 999999900
    /\ applied[c].limit = 100
    /\ applied[c].direction = "DESC"

\* ------------------------------------------------------------- the handlers
\* The response of a handler, named by the helper that sends it; writeJSON
\* is named with the status the handler passes to it.
NotFoundResponse == "notFoundResponse"
ServerErrorResponse == "serverErrorResponse"
BadRequestResponse == "badRequestResponse"
FailedValidationResponse == "failedValidationResponse"
StatusOK == "writeJSON(http.StatusOK)"
StatusCreated == "writeJSON(http.StatusCreated)"

\* errors.Is(err, target) on the errors of the model, none of which wraps
\* another: ErrRecordNotFound is the Store's own error, not sql.ErrNoRows.
ErrorsIs(err, target) == err = target

\* The switch of showMovieHandler and updateMovieHandler on the error of Get.
GetResponse(err) ==
  IF ErrorsIs(err, ErrNoRows) THEN NotFoundResponse
  ELSE ServerErrorResponse

\* Mutant: the error of Update dropped, the response written in any case.
UpdateResponseAlways(err) == StatusOK

\* updateMovieHandler after Update: every error is a server error.
UpdateResponse(err) == IF err # nil THEN ServerErrorResponse ELSE StatusOK

\* Mutant: the result of v.Valid() not looked at.
ValidatedUnchecked(movie) == TRUE

\* data.ValidateMovie(v, movie); !v.Valid() on a fresh Validator.
Validated(movie) == Valid(ValidateMovie(NoErrors, movie))

\* The JSON bodies of the requests, as readJSON decodes them into the input
\* struct: the two movies, the empty object, a movie of next year and a
\* movie with six genres.
Bodies ==
  MovieInputs \cup
    { NoBody,
      [Title |-> "alien", Year |-> ThisYear + 1, Runtime |-> 117,
       Genres |-> <<"horror">>],
      [Title |-> "alien", Year |-> 1979, Runtime |-> 117, Genres |-> SixGenres] }

\* The IDs readIDParam returns.
HandlerIds == (FirstId - 1)..MaxId

\* The tables earlier createMovieHandler requests left: no row, or the
\* first movie under the first ID.
HandlerTables ==
  { [i \in Ids |-> NoRow],
    [i \in Ids |-> IF i = FirstId THEN InsertRow(i, ValidMovie, Loaded)
                                   ELSE NoRow] }

InitHandlers ==
  /\ movies \in HandlerTables
  /\ nextId = FirstId + Cardinality(Live(movies))
  /\ dbUp = TRUE
  /\ call = [c \in Clients |-> NoCall]
  /\ remaining = [c \in Clients |-> 0]
  /\ ret = [c \in Clients |-> NoRet]
  /\ updates = [i \in Ids |-> 0]
  /\ InitRequest

\* createMovieHandler up to the call of Insert: the body decoded, the Movie
\* built from it and validated.
CreateMovieStart(c, body, malformed) ==
  /\ handler[c] = NoHandler
  /\ LET h == [NoHandler EXCEPT !.name = "createMovieHandler",
                                !.malformed = malformed]
         movie == NewMovie(body)
     IN handler' = [handler EXCEPT ![c] =
          IF malformed
            THEN [h EXCEPT !.pc = "done", !.response = BadRequestResponse]
          ELSE IF ~Validated(movie)
            THEN [h EXCEPT !.body = body, !.movie = movie, !.pc = "done",
                           !.response = FailedValidationResponse]
          ELSE [h EXCEPT !.body = body, !.movie = movie, !.pc = "insert"]]
  /\ UNCHANGED <<movies, nextId, dbUp, call, remaining, ret, updates,
                 cancelled, walk, openRows, input, Errors, applied>>

\* app.models.Movies.Insert(movie)
HandlerInsert(c) ==
  /\ handler[c].pc = "insert"
  /\ ret[c] = NoRet
  /\ InsertCall(c, handler[c].body)

\* createMovieHandler after Insert.
CreateMovieRespond(c) ==
  /\ handler[c].pc = "insert"
  /\ Idle(c)
  /\ ret[c].op = "Insert"
  /\ handler' = [handler EXCEPT ![c] =
       IF ret[c].err # nil
         THEN [@ EXCEPT !.pc = "done", !.response = ServerErrorResponse]
         ELSE [@ EXCEPT !.pc = "done", !.movie = ret[c].movie,
                        !.response = StatusCreated]]
  /\ UNCHANGED <<movies, nextId, dbUp, call, remaining, ret, updates,
                 cancelled, walk, openRows, input, Errors, applied>>

\* showMovieHandler and updateMovieHandler up to the call of Get: the ID
\* read from the URL, a 404 sent when readIDParam fails.
ShowMovieStart(c, id, idRead) ==
  /\ handler[c] = NoHandler
  /\ LET h == [NoHandler EXCEPT !.name = "showMovieHandler"]
     IN handler' = [handler EXCEPT ![c] =
          IF ~idRead
            THEN [h EXCEPT !.pc = "done", !.response = NotFoundResponse]
            ELSE [h EXCEPT !.id = id, !.pc = "get"]]
  /\ UNCHANGED <<movies, nextId, dbUp, call, remaining, ret, updates,
                 cancelled, walk, openRows, input, Errors, applied>>

\* The request of an update arrives with its body, which the handler reads
\* after Get.
UpdateMovieStart(c, id, idRead, body, malformed) ==
  /\ handler[c] = NoHandler
  /\ LET h == [NoHandler EXCEPT !.name = "updateMovieHandler",
                                !.body = IF malformed THEN NoBody ELSE body,
                                !.malformed = malformed]
     IN handler' = [handler EXCEPT ![c] =
          IF ~idRead
            THEN [h EXCEPT !.pc = "done", !.response = NotFoundResponse]
            ELSE [h EXCEPT !.id = id, !.pc = "get"]]
  /\ UNCHANGED <<movies, nextId, dbUp, call, remaining, ret, updates,
                 cancelled, walk, openRows, input, Errors, applied>>

\* app.models.Movies.Get(id)
HandlerGet(c) ==
  /\ handler[c].pc = "get"
  /\ ret[c] = NoRet
  /\ GetCall(c, handler[c].id)

\* showMovieHandler after Get.
ShowMovieRespond(c) ==
  /\ handler[c].name = "showMovieHandler"
  /\ handler[c].pc = "get"
  /\ Idle(c)
  /\ ret[c].op = "Get"
  /\ handler' = [handler EXCEPT ![c] =
       IF ret[c].err # nil
         THEN [@ EXCEPT !.pc = "done", !.response = GetResponse(ret[c].err)]
         ELSE [@ EXCEPT !.pc = "done", !.read = ret[c].movie,
                        !.movie = ret[c].movie, !.response = StatusOK]]
  /\ UNCHANGED <<movies, nextId, dbUp, call, remaining, ret, updates,
                 cancelled, walk, openRows, input, Errors, applied>>

\* updateMovieHandler from the return of Get to the call of Update: the
\* body decoded, its fields copied to the Movie Get returned, the Movie
\* validated.
UpdateMovieValidate(c) ==
  /\ handler[c].name = "updateMovieHandler"
  /\ handler[c].pc = "get"
  /\ Idle(c)
  /\ ret[c].op = "Get"
  /\ LET h == handler[c]
         movie == [ret[c].movie EXCEPT !.Title = h.body.Title,
                                       !.Year = h.body.Year,
                                       !.Runtime = h.body.Runtime,
                                       !.Genres = h.body.Genres]
     IN handler' = [handler EXCEPT ![c] =
          IF ret[c].err # nil
            THEN [h EXCEPT !.pc = "done", !.response = GetResponse(ret[c].err)]
          ELSE IF h.malformed
            THEN [h EXCEPT !.pc = "done", !.read = ret[c].movie,
                           !.movie = ret[c].movie,
                           !.response = BadRequestResponse]
          ELSE IF ~Validated(movie)
            THEN [h EXCEPT !.pc = "done", !.read = ret[c].movie,
                           !.movie = movie,
                           !.response = FailedValidationResponse]
          ELSE [h EXCEPT !.pc = "update", !.read = ret[c].movie,
                         !.movie = movie]]
  /\ UNCHANGED <<movies, nextId, dbUp, call, remaining, ret, updates,
                 cancelled, walk, openRows, input, Errors, applied>>

\* app.models.Movies.Update(movie)
HandlerUpdate(c) ==
  /\ handler[c].pc = "update"
  /\ Idle(c)
  /\ ret[c].op = "Get"
  /\ Issue(c, [NoCall EXCEPT !.op = "Update", !.id = handler[c].movie.ID,
                              !.movie = handler[c].movie])
  /\ UNCHANGED <<movies, nextId, dbUp, updates, request>>

\* updateMovieHandler after Update.
UpdateMovieRespond(c) ==
  /\ handler[c].pc = "update"
  /\ Idle(c)
  /\ ret[c].op = "Update"
  /\ handler' = [handler EXCEPT ![c] =
       [@ EXCEPT !.pc = "done", !.movie = ret[c].movie,
                 !.response = UpdateResponse(ret[c].err)]]
  /\ UNCHANGED <<movies, nextId, dbUp, call, remaining, ret, updates,
                 cancelled, walk, openRows, input, Errors, applied>>

NextHandlers ==
  \E c \in Clients :
    \/ \E body \in Bodies, malformed \in BOOLEAN :
         CreateMovieStart(c, body, malformed)
    \/ HandlerInsert(c)
    \/ InsertReturn(c)
    \/ CreateMovieRespond(c)
    \/ \E id \in HandlerIds, idRead \in BOOLEAN : ShowMovieStart(c, id, idRead)
    \/ \E id \in HandlerIds, idRead \in BOOLEAN, body \in Bodies,
          malformed \in BOOLEAN : UpdateMovieStart(c, id, idRead, body, malformed)
    \/ HandlerGet(c)
    \/ GetReturn(c)
    \/ ShowMovieRespond(c)
    \/ UpdateMovieValidate(c)
    \/ HandlerUpdate(c)
    \/ UpdateReturn(c)
    \/ UpdateMovieRespond(c)

\* The three handlers of cmd/api/movies.go over the Store, each client
\* serving one request.
SpecHandlers == InitHandlers /\ [][NextHandlers]_vars

\* C23: when Get returns ErrRecordNotFound, for an ID below 1 or an ID with
\* no row, showMovieHandler and updateMovieHandler answer with the 404 of
\* notFoundResponse; they answer with the server error only when Get failed
\* otherwise.
C23_NotFoundAnswers404 ==
  \A c \in Clients :
    (/\ handler[c].name \in {"showMovieHandler", "updateMovieHandler"}
     /\ handler[c].pc = "done"
     /\ ret[c].op = "Get" /\ ret[c].err # nil)
    => handler[c].response =
         IF ret[c].err = ErrRecordNotFound THEN NotFoundResponse
                                           ELSE ServerErrorResponse

\* The Update statement of the updateMovieHandler request of c has returned.
Updated(c) ==
  handler[c].name = "updateMovieHandler" /\ ret[c].op = "Update"

\* The requests that raced with c: their Update statement has returned, and
\* they had read the same movie at the same Version.
Rivals(c) ==
  {d \in Clients : /\ Updated(d)
                   /\ handler[d].id = handler[c].id
                   /\ handler[d].read.Version = handler[c].read.Version}

\* C24: of the updateMovieHandler requests that read the same movie at the
\* same Version and went on to Update, as two do whose Gets both return
\* before either calls Update, exactly one has its fields written: it
\* answers 200 with the Version it read plus 1.  The others write nothing
\* and do not answer 200; every Update statement applied to the row is that
\* of a request that succeeded, and until a later update follows the row
\* holds the fields of the one that did.
C24_OneRacingHandlerWrites ==
  \A c \in Clients :
    Updated(c) =>
      LET id == handler[c].id
          read == handler[c].read.Version
          won == {d \in Rivals(c) : ret[d].err = nil}
      IN /\ Cardinality(won) = 1
         /\ \A d \in Rivals(c) :
              /\ handler[d].pc = "done" =>
                   (handler[d].response = StatusOK <=> d \in won)
              /\ d \in won => ret[d].movie.Version = read + 1
              /\ d \notin won => ret[d].err = ErrEditConflict
         /\ updates[id] =
              Cardinality({d \in Clients : /\ Updated(d) /\ handler[d].id = id
                                           /\ ret[d].err = nil})
         /\ movies[id].version = read + 1 =>
              \A d \in won :
                /\ movies[id].title = handler[d].body.Title
                /\ movies[id].year = handler[d].body.Year
                /\ movies[id].runtime = handler[d].body.Runtime
                /\ movies[id].genres = handler[d].body.Genres

\* Two requests that read the first movie at Version 1 and carry different
\* fields are both done: one answered 200, the other did not, and the row
\* holds the fields of the first at Version 2.
C24_Witness ==
  \E c, d \in Clients :
    /\ c # d
    /\ Updated(c) /\ Updated(d)
    /\ handler[c].pc = "done" /\ handler[d].pc = "done"
    /\ handler[c].id = handler[d].id
    /\ handler[c].read.Version = InitialVersion
    /\ handler[d].read.Version = InitialVersion
    /\ handler[c].body # handler[d].body
    /\ handler[c].response = StatusOK
    /\ handler[c].movie.Version = InitialVersion + 1
    /\ handler[d].response = ServerErrorResponse
    /\ movies[handler[c].id].version = InitialVersion + 1
    /\ movies[handler[c].id].title = handler[c].body.Title
    /\ movies[handler[c].id].year = handler[c].body.Year

\* A row meets the constraints of ValidateMovie: a title of 1 to 500 bytes,
\* a year from 1888 to the current one, a runtime above 0, 1 to 5 genres
\* that differ.
MeetsConstraints(row) ==
  /\ row.title # "" /\ ByteLen(row.title) <= 500
  /\ row.year >= 1888 /\ row.year <= ThisYear
  /\ row.runtime > 0
  /\ Len(row.genres) >= 1 /\ Len(row.genres) <= 5
  /\ \A i, j \in 1..Len(row.genres) : i # j => row.genres[i] # row.genres[j]

\* C27: with createMovieHandler and updateMovieHandler as the only writers,
\* every stored movie meets the constraints of ValidateMovie; a request
\* answered with the validation failure has called neither Insert nor
\* Update, and the table changes only when the Insert or Update of a request
\* whose movie passed validation returns.
C27_HandlersStoreValidMovies ==
  /\ [](/\ \A i \in Live(movies) : MeetsConstraints(movies[i])
        /\ \A c \in Clients :
             handler[c].response = FailedValidationResponse =>
               /\ Idle(c)
               /\ ret[c].op \notin {"Insert", "Update"})
  /\ [][movies' # movies =>
          \E c \in Clients :
            /\ Returns(c, "Insert") \/ Returns(c, "Update")
            /\ handler[c].pc \in {"insert", "update"}
            /\ handler[c].response # FailedValidationResponse
            /\ MeetsConstraints(InsertRow(0, call[c].movie, 0))]_vars

\* An update with six genres has been answered with the validation failure
\* while another request updated the same movie: the row holds the fields
\* of the other.
C27_Witness ==
  \E c, d \in Clients :
    /\ handler[c].name = "updateMovieHandler"
    /\ handler[c].response = FailedValidationResponse
    /\ Len(handler[c].body.Genres) = 6
    /\ handler[d].name = "updateMovieHandler"
    /\ handler[d].response = StatusOK
    /\ handler[d].id = handler[c].id
    /\ movies[handler[c].id].version = InitialVersion + 1
    /\ movies[handler[c].id].genres = handler[d].body.Genres

\* ------------------------------------------------ GetAll among other callers
\* The queries of the listing: Filters that ValidateFilters accepts, pages
\* on and past the rows of the table.
SharedQueries ==
  { Query("", genres, page, pageSize, sort) :
      genres \in {<<>>, <<"scifi">>}, page \in 1..MaxId, pageSize \in 1..MaxId,
      sort \in {<<"id">>, <<"-", "year">>} }

\* One caller lists the movies while the other callers insert, update and
\* delete rows; every statement is applied at once, in any order.
NextShared ==
  \/ \E q \in SharedQueries : GetAllCall(Caller, q)
  \/ GetAllReturn(Caller)
  \/ \E c \in Clients \ {Caller} :
       \/ \E in \in MovieInputs : InsertCall(c, in)
       \/ \E id \in Ids, in \in FaultMovies :
            UpdateCall(c, id, InitialVersion, in)
       \/ \E id \in Ids : DeleteCall(c, id)
       \/ InsertReturn(c)
       \/ UpdateReturn(c)
       \/ DeleteReturn(c)

SpecShared == Init /\ [][NextShared]_vars

\* C25: a GetAll that succeeds on Filters ValidateFilters accepts returns a
\* slice that is not nil and holds at most PageSize movies; its Metadata
\* has every field 0 exactly when the slice is empty, and otherwise
\* FirstPage = 1 <= CurrentPage <= LastPage and TotalRecords >= the length
\* of the slice >= 1, whatever other callers insert, update or delete
\* meanwhile.
C25_PageAndMetadataAgree ==
  \A c \in Clients :
    (/\ ret[c].op = "GetAll" /\ ret[c].err = nil
     /\ Valid(ValidateFilters(NoErrors, ret[c].query.filters)))
    => LET list == ret[c].list
           m == ret[c].metadata
       IN /\ ~ret[c].nilList
          /\ Len(list) <= ret[c].query.filters.PageSize
          /\ m = ZeroMetadata <=> list = <<>>
          /\ list # <<>> =>
               /\ m.FirstPage = 1
               /\ 1 <= m.CurrentPage /\ m.CurrentPage <= m.LastPage
               /\ m.TotalRecords >= Len(list) /\ Len(list) >= 1

\* The second page of one movie a page has been returned, the last of two
\* pages; since then another caller has deleted a row, and one is left.
C25_Witness ==
  \E c \in Clients :
    /\ ret[c].op = "GetAll" /\ ret[c].err = nil
    /\ ret[c].query.filters.Page = 2
    /\ Len(ret[c].list) = 1
    /\ ret[c].metadata.LastPage = 2 /\ ret[c].metadata.TotalRecords = 2
    /\ Cardinality(Live(movies)) = 1
    /\ \E d \in Clients \ {c} : ret[d].op = "Delete" /\ ret[d].err = nil

\* C26: the query GetAll has sent carries as its ORDER BY column an entry of
\* SortSafelist, the Sort of the call, without its one leading hyphen, and
\* as its direction ASC or DESC; a GetAll whose Sort is no entry of the
\* safelist has panicked and has sent nothing.
C26_OnlySafelistedSortIsSent ==
  \A c \in Clients :
    /\ call[c].op = "GetAll" =>
         LET f == call[c].query.filters
         IN /\ \E i \in 1..Len(f.SortSafelist) :
                 /\ f.Sort = f.SortSafelist[i]
                 /\ sortColumn(f) = IF Head(f.SortSafelist[i]) = "-"
                                      THEN Tail(f.SortSafelist[i])
                                      ELSE f.SortSafelist[i]
            /\ sortDirection(f) \in {"ASC", "DESC"}
    /\ (/\ ret[c].op = "GetAll"
        /\ ret[c].query.filters.Sort \notin Elems(ret[c].query.filters.SortSafelist))
       => /\ ret[c].err = "panic"
          /\ Idle(c)
          /\ ret[c].list = <<>> /\ ret[c].metadata = ZeroMetadata

\* A GetAll sorted by "rating", which the safelist does not hold, has
\* panicked: no call is in flight and nothing was returned.
C26_Witness ==
  \E c \in Clients :
    /\ ret[c].op = "GetAll"
    /\ ret[c].query.filters.Sort = <<"rating">>
    /\ ret[c].err = "panic"
    /\ Idle(c)
    /\ Live(movies) # {}
====
